---- MODULE Spec2Model ----
(***************************************************************************)
(* Model of the stackerror crate: the StackError chain (src/src/error.rs), *)
(* the ErrorStacks contract lifted over Result, and the single-field       *)
(* wrapper emitted by derive_stack_error (src/impl/src/lib.rs).            *)
(*                                                                         *)
(* Option<T> is a sequence of length 0 (None) or 1 (Some(x)).  Text is a   *)
(* sequence of one-character strings, so that rendering is a real          *)
(* concatenation whose lines can be counted and compared.                  *)
(***************************************************************************)
EXTENDS Integers, Sequences, FiniteSets, TLC

VARIABLES err, res, lib, inner, ops, call, arg, ret

vars == <<err, res, lib, inner, ops, call, arg, ret>>

\* The chain under construction and its lock-step receivers.
chainVars == <<err, res, lib, inner, ops>>

\* One call of a free function, conversion or macro: its name, input, result.
callVars == <<call, arg, ret>>

\* ---------------------------------------------------------------- bounds
\* Number of contract operations applied after construction.
MaxOps == 4

\* Largest number of fields of a declaration handed to derive_stack_error.
MaxFields == 2

\* Largest value of a u16 (the parameter type of from_http_value).
U16_MAX == 65535

\* ---------------------------------------------------------------- inputs
NL == "\n"

None == <<>>

Some(x) == <<x>>

\* Messages handed to from_msg / with_err_msg / stack_err_msg (what their
\* Display impl writes).
Msgs == {<<"a">>, <<"b", "c">>}

\* Sample of the ErrorCode enum used as with_err_code arguments.
Codes == {"RuntimeInvalidValue", "IoNotFound"}

Uris == {"https://example.com/base", "https://example.com/other"}

\* Success value carried by Ok(v) (not the default of its type, so that a
\* lifting that rebuilds the success branch would show).
Vals == {1}

\* ------------------------------------------------------------- ErrorCode
\* enum ErrorCode, its variants in declaration order.
ErrorCode ==
    <<"RuntimeInvalidValue", "RuntimeInvalidIndex", "RuntimeInvalidKey",
      "RuntimeNotImplemented", "HttpBadRequest", "HttpUnauthorized",
      "HttpPaymentRequired", "HttpForbidden", "HttpNotFound",
      "HttpMethodNotAllowed", "HttpNotAcceptable", "HttpProxyAuthenticationRequired",
      "HttpRequestTimeout", "HttpConflict", "HttpGone",
      "HttpLengthRequired", "HttpPreconditionFailed", "HttpPayloadTooLarge",
      "HttpUriTooLong", "HttpUnsupportedMediaType", "HttpRangeNotSatisfiable",
      "HttpExpectationFailed", "HttpImATeapot", "HttpMisdirectedRequest",
      "HttpUnprocessableEntity", "HttpLocked", "HttpFailedDependency",
      "HttpTooEarly", "HttpUpgradeRequired", "HttpPreconditionRequired",
      "HttpTooManyRequests", "HttpRequestHeaderFieldsTooLarge", "HttpUnavailableForLegalReasons",
      "HttpInternalServerError", "HttpNotImplemented", "HttpBadGateway",
      "HttpServiceUnavailable", "HttpGatewayTimeout", "HttpHttpVersionNotSupported",
      "HttpVariantAlsoNegotiates", "HttpInsufficientStorage", "HttpLoopDetected",
      "HttpNotExtended", "HttpNetworkAuthenticationRequired", "IoNotFound",
      "IoPermissionDenied", "IoConnectionRefused", "IoConnectionReset",
      "IoConnectionAborted", "IoNotConnected", "IoAddrInUse",
      "IoAddrNotAvailable", "IoBrokenPipe", "IoAlreadyExists",
      "IoWouldBlock", "IoInvalidInput", "IoInvalidData",
      "IoTimedOut", "IoWriteZero", "IoInterrupted",
      "IoUnsupported", "IoUnexpectedEof", "IoOutOfMemory",
      "IoOther">>

\* std::io::ErrorKind: the kinds the tables name and the other stable kinds.
ErrorKind ==
    <<"NotFound", "PermissionDenied", "ConnectionRefused", "ConnectionReset",
      "HostUnreachable", "NetworkUnreachable", "ConnectionAborted", "NotConnected",
      "AddrInUse", "AddrNotAvailable", "NetworkDown", "BrokenPipe",
      "AlreadyExists", "WouldBlock", "NotADirectory", "IsADirectory",
      "DirectoryNotEmpty", "ReadOnlyFilesystem", "StaleNetworkFileHandle", "InvalidInput",
      "InvalidData", "TimedOut", "WriteZero", "StorageFull",
      "NotSeekable", "QuotaExceeded", "FileTooLarge", "ResourceBusy",
      "ExecutableFileBusy", "Deadlock", "CrossesDevices", "TooManyLinks",
      "InvalidFilename", "ArgumentListTooLong", "Interrupted", "Unsupported",
      "UnexpectedEof", "OutOfMemory", "Other">>

\* `code as u32`: the enum declares no discriminants, so a variant's value is
\* its position, counted from 0.
as_u32(code) == (CHOOSE i \in 1..Len(ErrorCode) : ErrorCode[i] = code) - 1

from_http_value(value) ==
    CASE value = 400 -> Some("HttpBadRequest")
      [] value = 401 -> Some("HttpUnauthorized")
      [] value = 402 -> Some("HttpPaymentRequired")
      [] value = 403 -> Some("HttpForbidden")
      [] value = 404 -> Some("HttpNotFound")
      [] value = 405 -> Some("HttpMethodNotAllowed")
      [] value = 406 -> Some("HttpNotAcceptable")
      [] value = 407 -> Some("HttpProxyAuthenticationRequired")
      [] value = 408 -> Some("HttpRequestTimeout")
      [] value = 409 -> Some("HttpConflict")
      [] value = 410 -> Some("HttpGone")
      [] value = 411 -> Some("HttpLengthRequired")
      [] value = 412 -> Some("HttpPreconditionFailed")
      [] value = 413 -> Some("HttpPayloadTooLarge")
      [] value = 414 -> Some("HttpUriTooLong")
      [] value = 415 -> Some("HttpUnsupportedMediaType")
      [] value = 416 -> Some("HttpRangeNotSatisfiable")
      [] value = 417 -> Some("HttpExpectationFailed")
      [] value = 418 -> Some("HttpImATeapot")
      [] value = 421 -> Some("HttpMisdirectedRequest")
      [] value = 422 -> Some("HttpUnprocessableEntity")
      [] value = 423 -> Some("HttpLocked")
      [] value = 424 -> Some("HttpFailedDependency")
      [] value = 425 -> Some("HttpTooEarly")
      [] value = 426 -> Some("HttpUpgradeRequired")
      [] value = 428 -> Some("HttpPreconditionRequired")
      [] value = 429 -> Some("HttpTooManyRequests")
      [] value = 431 -> Some("HttpRequestHeaderFieldsTooLarge")
      [] value = 451 -> Some("HttpUnavailableForLegalReasons")
      [] value = 500 -> Some("HttpInternalServerError")
      [] value = 501 -> Some("HttpNotImplemented")
      [] value = 502 -> Some("HttpBadGateway")
      [] value = 503 -> Some("HttpServiceUnavailable")
      [] value = 504 -> Some("HttpGatewayTimeout")
      [] value = 505 -> Some("HttpHttpVersionNotSupported")
      [] value = 506 -> Some("HttpVariantAlsoNegotiates")
      [] value = 507 -> Some("HttpInsufficientStorage")
      [] value = 508 -> Some("HttpLoopDetected")
      [] value = 510 -> Some("HttpNotExtended")
      [] value = 511 -> Some("HttpNetworkAuthenticationRequired")
      [] OTHER -> None

\* Variant: a table with one status typed twice (HttpGone as 409).
to_http_value_typo(code) ==
    CASE code = "HttpBadRequest" -> Some(400)
      [] code = "HttpUnauthorized" -> Some(401)
      [] code = "HttpPaymentRequired" -> Some(402)
      [] code = "HttpForbidden" -> Some(403)
      [] code = "HttpNotFound" -> Some(404)
      [] code = "HttpMethodNotAllowed" -> Some(405)
      [] code = "HttpNotAcceptable" -> Some(406)
      [] code = "HttpProxyAuthenticationRequired" -> Some(407)
      [] code = "HttpRequestTimeout" -> Some(408)
      [] code = "HttpConflict" -> Some(409)
      [] code = "HttpGone" -> Some(409)
      [] code = "HttpLengthRequired" -> Some(411)
      [] code = "HttpPreconditionFailed" -> Some(412)
      [] code = "HttpPayloadTooLarge" -> Some(413)
      [] code = "HttpUriTooLong" -> Some(414)
      [] code = "HttpUnsupportedMediaType" -> Some(415)
      [] code = "HttpRangeNotSatisfiable" -> Some(416)
      [] code = "HttpExpectationFailed" -> Some(417)
      [] code = "HttpImATeapot" -> Some(418)
      [] code = "HttpMisdirectedRequest" -> Some(421)
      [] code = "HttpUnprocessableEntity" -> Some(422)
      [] code = "HttpLocked" -> Some(423)
      [] code = "HttpFailedDependency" -> Some(424)
      [] code = "HttpTooEarly" -> Some(425)
      [] code = "HttpUpgradeRequired" -> Some(426)
      [] code = "HttpPreconditionRequired" -> Some(428)
      [] code = "HttpTooManyRequests" -> Some(429)
      [] code = "HttpRequestHeaderFieldsTooLarge" -> Some(431)
      [] code = "HttpUnavailableForLegalReasons" -> Some(451)
      [] code = "HttpInternalServerError" -> Some(500)
      [] code = "HttpNotImplemented" -> Some(501)
      [] code = "HttpBadGateway" -> Some(502)
      [] code = "HttpServiceUnavailable" -> Some(503)
      [] code = "HttpGatewayTimeout" -> Some(504)
      [] code = "HttpHttpVersionNotSupported" -> Some(505)
      [] code = "HttpVariantAlsoNegotiates" -> Some(506)
      [] code = "HttpInsufficientStorage" -> Some(507)
      [] code = "HttpLoopDetected" -> Some(508)
      [] code = "HttpNotExtended" -> Some(510)
      [] code = "HttpNetworkAuthenticationRequired" -> Some(511)
      [] OTHER -> None

to_http_value(code) ==
    CASE code = "HttpBadRequest" -> Some(400)
      [] code = "HttpUnauthorized" -> Some(401)
      [] code = "HttpPaymentRequired" -> Some(402)
      [] code = "HttpForbidden" -> Some(403)
      [] code = "HttpNotFound" -> Some(404)
      [] code = "HttpMethodNotAllowed" -> Some(405)
      [] code = "HttpNotAcceptable" -> Some(406)
      [] code = "HttpProxyAuthenticationRequired" -> Some(407)
      [] code = "HttpRequestTimeout" -> Some(408)
      [] code = "HttpConflict" -> Some(409)
      [] code = "HttpGone" -> Some(410)
      [] code = "HttpLengthRequired" -> Some(411)
      [] code = "HttpPreconditionFailed" -> Some(412)
      [] code = "HttpPayloadTooLarge" -> Some(413)
      [] code = "HttpUriTooLong" -> Some(414)
      [] code = "HttpUnsupportedMediaType" -> Some(415)
      [] code = "HttpRangeNotSatisfiable" -> Some(416)
      [] code = "HttpExpectationFailed" -> Some(417)
      [] code = "HttpImATeapot" -> Some(418)
      [] code = "HttpMisdirectedRequest" -> Some(421)
      [] code = "HttpUnprocessableEntity" -> Some(422)
      [] code = "HttpLocked" -> Some(423)
      [] code = "HttpFailedDependency" -> Some(424)
      [] code = "HttpTooEarly" -> Some(425)
      [] code = "HttpUpgradeRequired" -> Some(426)
      [] code = "HttpPreconditionRequired" -> Some(428)
      [] code = "HttpTooManyRequests" -> Some(429)
      [] code = "HttpRequestHeaderFieldsTooLarge" -> Some(431)
      [] code = "HttpUnavailableForLegalReasons" -> Some(451)
      [] code = "HttpInternalServerError" -> Some(500)
      [] code = "HttpNotImplemented" -> Some(501)
      [] code = "HttpBadGateway" -> Some(502)
      [] code = "HttpServiceUnavailable" -> Some(503)
      [] code = "HttpGatewayTimeout" -> Some(504)
      [] code = "HttpHttpVersionNotSupported" -> Some(505)
      [] code = "HttpVariantAlsoNegotiates" -> Some(506)
      [] code = "HttpInsufficientStorage" -> Some(507)
      [] code = "HttpLoopDetected" -> Some(508)
      [] code = "HttpNotExtended" -> Some(510)
      [] code = "HttpNetworkAuthenticationRequired" -> Some(511)
      [] OTHER -> None

from_io_kind(kind) ==
    CASE kind = "NotFound" -> Some("IoNotFound")
      [] kind = "PermissionDenied" -> Some("IoPermissionDenied")
      [] kind = "ConnectionRefused" -> Some("IoConnectionRefused")
      [] kind = "ConnectionReset" -> Some("IoConnectionReset")
      [] kind = "ConnectionAborted" -> Some("IoConnectionAborted")
      [] kind = "NotConnected" -> Some("IoNotConnected")
      [] kind = "AddrInUse" -> Some("IoAddrInUse")
      [] kind = "AddrNotAvailable" -> Some("IoAddrNotAvailable")
      [] kind = "BrokenPipe" -> Some("IoBrokenPipe")
      [] kind = "AlreadyExists" -> Some("IoAlreadyExists")
      [] kind = "WouldBlock" -> Some("IoWouldBlock")
      [] kind = "InvalidInput" -> Some("IoInvalidInput")
      [] kind = "InvalidData" -> Some("IoInvalidData")
      [] kind = "TimedOut" -> Some("IoTimedOut")
      [] kind = "WriteZero" -> Some("IoWriteZero")
      [] kind = "Interrupted" -> Some("IoInterrupted")
      [] kind = "Unsupported" -> Some("IoUnsupported")
      [] kind = "UnexpectedEof" -> Some("IoUnexpectedEof")
      [] kind = "OutOfMemory" -> Some("IoOutOfMemory")
      [] kind = "Other" -> Some("IoOther")
      [] OTHER -> None

\* Variant: a table with one kind typed twice (IoTimedOut as WouldBlock).
to_io_kind_typo(self) ==
    CASE self = "IoNotFound" -> Some("NotFound")
      [] self = "IoPermissionDenied" -> Some("PermissionDenied")
      [] self = "IoConnectionRefused" -> Some("ConnectionRefused")
      [] self = "IoConnectionReset" -> Some("ConnectionReset")
      [] self = "IoConnectionAborted" -> Some("ConnectionAborted")
      [] self = "IoNotConnected" -> Some("NotConnected")
      [] self = "IoAddrInUse" -> Some("AddrInUse")
      [] self = "IoAddrNotAvailable" -> Some("AddrNotAvailable")
      [] self = "IoBrokenPipe" -> Some("BrokenPipe")
      [] self = "IoAlreadyExists" -> Some("AlreadyExists")
      [] self = "IoWouldBlock" -> Some("WouldBlock")
      [] self = "IoInvalidInput" -> Some("InvalidInput")
      [] self = "IoInvalidData" -> Some("InvalidData")
      [] self = "IoTimedOut" -> Some("WouldBlock")
      [] self = "IoWriteZero" -> Some("WriteZero")
      [] self = "IoInterrupted" -> Some("Interrupted")
      [] self = "IoUnsupported" -> Some("Unsupported")
      [] self = "IoUnexpectedEof" -> Some("UnexpectedEof")
      [] self = "IoOutOfMemory" -> Some("OutOfMemory")
      [] self = "IoOther" -> Some("Other")
      [] OTHER -> None

to_io_kind(self) ==
    CASE self = "IoNotFound" -> Some("NotFound")
      [] self = "IoPermissionDenied" -> Some("PermissionDenied")
      [] self = "IoConnectionRefused" -> Some("ConnectionRefused")
      [] self = "IoConnectionReset" -> Some("ConnectionReset")
      [] self = "IoConnectionAborted" -> Some("ConnectionAborted")
      [] self = "IoNotConnected" -> Some("NotConnected")
      [] self = "IoAddrInUse" -> Some("AddrInUse")
      [] self = "IoAddrNotAvailable" -> Some("AddrNotAvailable")
      [] self = "IoBrokenPipe" -> Some("BrokenPipe")
      [] self = "IoAlreadyExists" -> Some("AlreadyExists")
      [] self = "IoWouldBlock" -> Some("WouldBlock")
      [] self = "IoInvalidInput" -> Some("InvalidInput")
      [] self = "IoInvalidData" -> Some("InvalidData")
      [] self = "IoTimedOut" -> Some("TimedOut")
      [] self = "IoWriteZero" -> Some("WriteZero")
      [] self = "IoInterrupted" -> Some("Interrupted")
      [] self = "IoUnsupported" -> Some("Unsupported")
      [] self = "IoUnexpectedEof" -> Some("UnexpectedEof")
      [] self = "IoOutOfMemory" -> Some("OutOfMemory")
      [] self = "IoOther" -> Some("Other")
      [] OTHER -> None

\* ------------------------------------------------------------ StackError
\* #[derive(Default)] struct StackError { message, source, code, uri }
StackError_default == [message |-> None, source |-> None, code |-> None, uri |-> None]

new == StackError_default

from_msg(error) == [StackError_default EXCEPT !.message = Some(error)]

\* Variant: an accessor that searches the chain when the top has no code.
RECURSIVE err_code_searches_chain(_)
err_code_searches_chain(self) ==
    IF self.code # None \/ self.source = None THEN self.code
    ELSE err_code_searches_chain(self.source[1])

err_code(self) == self.code

\* Variant: a setter that keeps a code that is already set.
with_err_code_keeps_old(self, code) ==
    IF self.code = None THEN [self EXCEPT !.code = Some(code)] ELSE self

with_err_code(self, code) == [self EXCEPT !.code = Some(code)]

\* Variant: clearing that reaches into the causes and clears their code too.
RECURSIVE with_no_err_code_clears_chain(_)
with_no_err_code_clears_chain(self) ==
    [self EXCEPT !.code = None,
                 !.source = IF self.source = None THEN None
                            ELSE Some(with_no_err_code_clears_chain(self.source[1]))]

with_no_err_code(self) == [self EXCEPT !.code = None]

err_uri(self) == self.uri

\* Variant: a builder that fills the other fields from Default, not self.
with_err_uri_from_default(self, uri) ==
    [message |-> None, source |-> None, code |-> None, uri |-> Some(uri)]

with_err_uri(self, uri) == [self EXCEPT !.uri = Some(uri)]

with_no_err_uri(self) == [self EXCEPT !.uri = None]

\* Variant: a message setter that starts a new root, dropping the causes.
with_err_msg_drops_source(self, message) ==
    [message |-> Some(message), source |-> None, code |-> self.code, uri |-> self.uri]

with_err_msg(self, message) == [self EXCEPT !.message = Some(message)]

with_no_err_msg(self) == [self EXCEPT !.message = None]

\* Variant: stacking that links the new node to self's cause, skipping self.
stack_err_skips_self(self) ==
    [message |-> None, source |-> self.source, code |-> self.code, uri |-> self.uri]

stack_err(self) ==
    LET code == self.code
        uri == self.uri
    IN  [message |-> None, source |-> Some(self), code |-> code, uri |-> uri]

\* Variant: stacking that does not copy the code and URI forward.
stack_err_msg_no_metadata(self, message) ==
    [message |-> Some(message), source |-> Some(self), code |-> None, uri |-> None]

stack_err_msg(self, message) ==
    LET code == self.code
        uri == self.uri
    IN  [message |-> Some(message), source |-> Some(self), code |-> code, uri |-> uri]

\* impl Display: writes the node's own message, nothing when there is none.
Display_fmt(self) == IF self.message # None THEN self.message[1] ELSE <<>>

to_string(self) == Display_fmt(self)

\* std::iter::successors(Some(self), |e| e.source.as_deref()).collect()
RECURSIVE successors(_)
successors(self) ==
    IF self.source = None THEN <<self>>
    ELSE <<self>> \o successors(self.source[1])

rev(s) == [i \in 1..Len(s) |-> s[Len(s) + 1 - i]]

\* The body of the for loop of Debug::fmt, over the enumerated nodes.
RECURSIVE Debug_write(_, _)
Debug_write(nodes, idx) ==
    IF idx > Len(nodes) THEN <<>>
    ELSE (IF idx - 1 > 0 THEN <<NL>> ELSE <<>>)
         \o Display_fmt(nodes[idx])
         \o Debug_write(nodes, idx + 1)

\* Variant: rendering without the reversal, newest node first.
Debug_fmt_top_first(self) == Debug_write(successors(self), 1)

\* impl Debug: the whole chain, root first, one node per line.
Debug_fmt(self) == Debug_write(rev(successors(self)), 1)

\* impl std::error::Error: the immediate cause.
source(self) == self.source

\* -------------------------------------------------- Result<T, StackError>
Ok(v) == <<"Ok", v>>

Err(e) == <<"Err", e>>

is_ok(r) == r[1] = "Ok"

is_err(r) == r[1] = "Err"

Result_err_code(self) == IF is_err(self) THEN err_code(self[2]) ELSE None

Result_with_err_code(self, code) ==
    IF is_err(self) THEN Err(with_err_code(self[2], code)) ELSE self

Result_with_no_err_code(self) ==
    IF is_err(self) THEN Err(with_no_err_code(self[2])) ELSE self

Result_err_uri(self) == IF is_err(self) THEN err_uri(self[2]) ELSE None

Result_with_err_uri(self, uri) ==
    IF is_err(self) THEN Err(with_err_uri(self[2], uri)) ELSE self

Result_with_no_err_uri(self) ==
    IF is_err(self) THEN Err(with_no_err_uri(self[2])) ELSE self

Result_with_err_msg(self, error) ==
    IF is_err(self) THEN Err(with_err_msg(self[2], error)) ELSE self

Result_with_no_err_msg(self) ==
    IF is_err(self) THEN Err(with_no_err_msg(self[2])) ELSE self

\* Variant: a lifting that stacks on the success branch too.
Result_stack_err_invents(self) ==
    IF is_err(self) THEN Err(stack_err(self[2])) ELSE Err(stack_err(new))

Result_stack_err(self) ==
    IF is_err(self) THEN Err(stack_err(self[2])) ELSE self

\* Variant: a lifting that passes the failure branch through untouched.
Result_stack_err_msg_passes(self, error) == self

Result_stack_err_msg(self, error) ==
    IF is_err(self) THEN Err(stack_err_msg(self[2], error)) ELSE self

\* ------------------------------------- the wrapper's inner type (self.0)
\* The generated code calls the inner type through new(msg), stack_err(msg),
\* with_err_code(Option), with_err_uri(Option) and the three stacking
\* methods of traits.rs that name what they preserve.
T_new(error) == from_msg(error)

T_stack_err(self, error) == stack_err_msg(self, error)

T_with_err_code(self, code) ==
    IF code = None THEN with_no_err_code(self) ELSE with_err_code(self, code[1])

T_with_err_uri(self, uri) ==
    IF uri = None THEN with_no_err_uri(self) ELSE with_err_uri(self, uri[1])

\* trait ErrorStacksWithCode: "stacking errors preserving the code".
T_stack_err_code(self, error) ==
    [message |-> Some(error), source |-> Some(self),
     code |-> self.code, uri |-> None]

\* trait ErrorStacksWithUri: "stacking errors preserving the URI".
T_stack_err_uri(self, error) ==
    [message |-> Some(error), source |-> Some(self),
     code |-> None, uri |-> self.uri]

\* trait ErrorStacksWithCodeUri: "stacking errors preserving the code and URI".
T_stack_err_code_uri(self, error) ==
    [message |-> Some(error), source |-> Some(self),
     code |-> self.code, uri |-> self.uri]

\* ------------------------------- #[derive_stack_error] struct LibError(T)
\* The wrapper is the one-field tuple struct; self.0 is self[1].
LibError_new(error) == <<T_new(error)>>

\* Variant: a wrapper that builds a new inner error instead of stacking.
LibError_stack_err_rebuilds(self, error) == <<T_new(error)>>

LibError_stack_err(self, error) == <<T_stack_err(self[1], error)>>

LibError_err_code(self) == err_code(self[1])

LibError_with_err_code(self, code) == <<T_with_err_code(self[1], code)>>

LibError_err_uri(self) == err_uri(self[1])

LibError_with_err_uri(self, uri) == <<T_with_err_uri(self[1], uri)>>

LibError_stack_err_code(self, error) == <<T_stack_err_code(self[1], error)>>

LibError_stack_err_uri(self, error) == <<T_stack_err_uri(self[1], error)>>

LibError_stack_err_code_uri(self, error) ==
    <<T_stack_err_code_uri(self[1], error)>>

LibError_Display_fmt(self) == Display_fmt(self[1])

LibError_Debug_fmt(self) == Debug_fmt(self[1])

LibError_source(self) == source(self[1])

\* ------------------------------------------------------------- adapters
\* An std::io::Error is its kind and the text its Display writes.
\* impl From<std::io::Error> for StackError
\* Variant: an adapter that files every unmapped kind under IoOther.
From_io_Error_guesses(error) ==
    LET kind == error.kind
        e == from_msg(error.text)
    IN  IF from_io_kind(kind) # None THEN with_err_code(e, from_io_kind(kind)[1])
        ELSE with_err_code(e, "IoOther")

From_io_Error(error) ==
    LET kind == error.kind
        e == from_msg(error.text)
    IN  IF from_io_kind(kind) # None THEN with_err_code(e, from_io_kind(kind)[1])
        ELSE e

DigitChar == <<"0", "1", "2", "3", "4", "5", "6", "7", "8", "9">>

\* Display of an unsigned integer ({} in format!).
RECURSIVE Decimal(_)
Decimal(n) ==
    IF n < 10 THEN <<DigitChar[n + 1]>>
    ELSE Decimal(n \div 10) \o <<DigitChar[(n % 10) + 1]>>

\* status.as_u16(): an http::StatusCode is its number.
as_u16(status) == status

\* http::StatusCode::canonical_reason: the reason phrase of the registered
\* statuses, None for every other number.
canonical_reason(status) ==
    CASE status = 100 -> Some(<<"C", "o", "n", "t", "i", "n", "u", "e">>)
      [] status = 101 -> Some(<<"S", "w", "i", "t", "c", "h", "i", "n", "g", " ", "P", "r", "o", "t", "o", "c", "o", "l", "s">>)
      [] status = 102 -> Some(<<"P", "r", "o", "c", "e", "s", "s", "i", "n", "g">>)
      [] status = 103 -> Some(<<"E", "a", "r", "l", "y", " ", "H", "i", "n", "t", "s">>)
      [] status = 200 -> Some(<<"O", "K">>)
      [] status = 201 -> Some(<<"C", "r", "e", "a", "t", "e", "d">>)
      [] status = 202 -> Some(<<"A", "c", "c", "e", "p", "t", "e", "d">>)
      [] status = 203 -> Some(<<"N", "o", "n", " ", "A", "u", "t", "h", "o", "r", "i", "t", "a", "t", "i", "v", "e", " ", "I", "n", "f", "o", "r", "m", "a", "t", "i", "o", "n">>)
      [] status = 204 -> Some(<<"N", "o", " ", "C", "o", "n", "t", "e", "n", "t">>)
      [] status = 205 -> Some(<<"R", "e", "s", "e", "t", " ", "C", "o", "n", "t", "e", "n", "t">>)
      [] status = 206 -> Some(<<"P", "a", "r", "t", "i", "a", "l", " ", "C", "o", "n", "t", "e", "n", "t">>)
      [] status = 207 -> Some(<<"M", "u", "l", "t", "i", "-", "S", "t", "a", "t", "u", "s">>)
      [] status = 208 -> Some(<<"A", "l", "r", "e", "a", "d", "y", " ", "R", "e", "p", "o", "r", "t", "e", "d">>)
      [] status = 226 -> Some(<<"I", "M", " ", "U", "s", "e", "d">>)
      [] status = 300 -> Some(<<"M", "u", "l", "t", "i", "p", "l", "e", " ", "C", "h", "o", "i", "c", "e", "s">>)
      [] status = 301 -> Some(<<"M", "o", "v", "e", "d", " ", "P", "e", "r", "m", "a", "n", "e", "n", "t", "l", "y">>)
      [] status = 302 -> Some(<<"F", "o", "u", "n", "d">>)
      [] status = 303 -> Some(<<"S", "e", "e", " ", "O", "t", "h", "e", "r">>)
      [] status = 304 -> Some(<<"N", "o", "t", " ", "M", "o", "d", "i", "f", "i", "e", "d">>)
      [] status = 305 -> Some(<<"U", "s", "e", " ", "P", "r", "o", "x", "y">>)
      [] status = 307 -> Some(<<"T", "e", "m", "p", "o", "r", "a", "r", "y", " ", "R", "e", "d", "i", "r", "e", "c", "t">>)
      [] status = 308 -> Some(<<"P", "e", "r", "m", "a", "n", "e", "n", "t", " ", "R", "e", "d", "i", "r", "e", "c", "t">>)
      [] status = 400 -> Some(<<"B", "a", "d", " ", "R", "e", "q", "u", "e", "s", "t">>)
      [] status = 401 -> Some(<<"U", "n", "a", "u", "t", "h", "o", "r", "i", "z", "e", "d">>)
      [] status = 402 -> Some(<<"P", "a", "y", "m", "e", "n", "t", " ", "R", "e", "q", "u", "i", "r", "e", "d">>)
      [] status = 403 -> Some(<<"F", "o", "r", "b", "i", "d", "d", "e", "n">>)
      [] status = 404 -> Some(<<"N", "o", "t", " ", "F", "o", "u", "n", "d">>)
      [] status = 405 -> Some(<<"M", "e", "t", "h", "o", "d", " ", "N", "o", "t", " ", "A", "l", "l", "o", "w", "e", "d">>)
      [] status = 406 -> Some(<<"N", "o", "t", " ", "A", "c", "c", "e", "p", "t", "a", "b", "l", "e">>)
      [] status = 407 -> Some(<<"P", "r", "o", "x", "y", " ", "A", "u", "t", "h", "e", "n", "t", "i", "c", "a", "t", "i", "o", "n", " ", "R", "e", "q", "u", "i", "r", "e", "d">>)
      [] status = 408 -> Some(<<"R", "e", "q", "u", "e", "s", "t", " ", "T", "i", "m", "e", "o", "u", "t">>)
      [] status = 409 -> Some(<<"C", "o", "n", "f", "l", "i", "c", "t">>)
      [] status = 410 -> Some(<<"G", "o", "n", "e">>)
      [] status = 411 -> Some(<<"L", "e", "n", "g", "t", "h", " ", "R", "e", "q", "u", "i", "r", "e", "d">>)
      [] status = 412 -> Some(<<"P", "r", "e", "c", "o", "n", "d", "i", "t", "i", "o", "n", " ", "F", "a", "i", "l", "e", "d">>)
      [] status = 413 -> Some(<<"P", "a", "y", "l", "o", "a", "d", " ", "T", "o", "o", " ", "L", "a", "r", "g", "e">>)
      [] status = 414 -> Some(<<"U", "R", "I", " ", "T", "o", "o", " ", "L", "o", "n", "g">>)
      [] status = 415 -> Some(<<"U", "n", "s", "u", "p", "p", "o", "r", "t", "e", "d", " ", "M", "e", "d", "i", "a", " ", "T", "y", "p", "e">>)
      [] status = 416 -> Some(<<"R", "a", "n", "g", "e", " ", "N", "o", "t", " ", "S", "a", "t", "i", "s", "f", "i", "a", "b", "l", "e">>)
      [] status = 417 -> Some(<<"E", "x", "p", "e", "c", "t", "a", "t", "i", "o", "n", " ", "F", "a", "i", "l", "e", "d">>)
      [] status = 418 -> Some(<<"I", "'", "m", " ", "a", " ", "t", "e", "a", "p", "o", "t">>)
      [] status = 421 -> Some(<<"M", "i", "s", "d", "i", "r", "e", "c", "t", "e", "d", " ", "R", "e", "q", "u", "e", "s", "t">>)
      [] status = 422 -> Some(<<"U", "n", "p", "r", "o", "c", "e", "s", "s", "a", "b", "l", "e", " ", "E", "n", "t", "i", "t", "y">>)
      [] status = 423 -> Some(<<"L", "o", "c", "k", "e", "d">>)
      [] status = 424 -> Some(<<"F", "a", "i", "l", "e", "d", " ", "D", "e", "p", "e", "n", "d", "e", "n", "c", "y">>)
      [] status = 425 -> Some(<<"T", "o", "o", " ", "E", "a", "r", "l", "y">>)
      [] status = 426 -> Some(<<"U", "p", "g", "r", "a", "d", "e", " ", "R", "e", "q", "u", "i", "r", "e", "d">>)
      [] status = 428 -> Some(<<"P", "r", "e", "c", "o", "n", "d", "i", "t", "i", "o", "n", " ", "R", "e", "q", "u", "i", "r", "e", "d">>)
      [] status = 429 -> Some(<<"T", "o", "o", " ", "M", "a", "n", "y", " ", "R", "e", "q", "u", "e", "s", "t", "s">>)
      [] status = 431 -> Some(<<"R", "e", "q", "u", "e", "s", "t", " ", "H", "e", "a", "d", "e", "r", " ", "F", "i", "e", "l", "d", "s", " ", "T", "o", "o", " ", "L", "a", "r", "g", "e">>)
      [] status = 451 -> Some(<<"U", "n", "a", "v", "a", "i", "l", "a", "b", "l", "e", " ", "F", "o", "r", " ", "L", "e", "g", "a", "l", " ", "R", "e", "a", "s", "o", "n", "s">>)
      [] status = 500 -> Some(<<"I", "n", "t", "e", "r", "n", "a", "l", " ", "S", "e", "r", "v", "e", "r", " ", "E", "r", "r", "o", "r">>)
      [] status = 501 -> Some(<<"N", "o", "t", " ", "I", "m", "p", "l", "e", "m", "e", "n", "t", "e", "d">>)
      [] status = 502 -> Some(<<"B", "a", "d", " ", "G", "a", "t", "e", "w", "a", "y">>)
      [] status = 503 -> Some(<<"S", "e", "r", "v", "i", "c", "e", " ", "U", "n", "a", "v", "a", "i", "l", "a", "b", "l", "e">>)
      [] status = 504 -> Some(<<"G", "a", "t", "e", "w", "a", "y", " ", "T", "i", "m", "e", "o", "u", "t">>)
      [] status = 505 -> Some(<<"H", "T", "T", "P", " ", "V", "e", "r", "s", "i", "o", "n", " ", "N", "o", "t", " ", "S", "u", "p", "p", "o", "r", "t", "e", "d">>)
      [] status = 506 -> Some(<<"V", "a", "r", "i", "a", "n", "t", " ", "A", "l", "s", "o", " ", "N", "e", "g", "o", "t", "i", "a", "t", "e", "s">>)
      [] status = 507 -> Some(<<"I", "n", "s", "u", "f", "f", "i", "c", "i", "e", "n", "t", " ", "S", "t", "o", "r", "a", "g", "e">>)
      [] status = 508 -> Some(<<"L", "o", "o", "p", " ", "D", "e", "t", "e", "c", "t", "e", "d">>)
      [] status = 510 -> Some(<<"N", "o", "t", " ", "E", "x", "t", "e", "n", "d", "e", "d">>)
      [] status = 511 -> Some(<<"N", "e", "t", "w", "o", "r", "k", " ", "A", "u", "t", "h", "e", "n", "t", "i", "c", "a", "t", "i", "o", "n", " ", "R", "e", "q", "u", "i", "r", "e", "d">>)
      [] OTHER -> None

\* impl Display for http::StatusCode: the number in decimal, a space, then
\* the reason phrase or "<unknown status code>".
StatusCode_Display(status) ==
    LET reason == canonical_reason(status)
    IN  Decimal(as_u16(status)) \o <<" ">>
        \o (IF reason # None THEN reason[1]
            ELSE <<"<", "u", "n", "k", "n", "o", "w", "n", " ", "s", "t", "a", "t", "u", "s", " ", "c", "o", "d", "e", ">">>)

\* Variant: an adapter that wraps the status text and forgets the code.
From_StatusCode_no_code(status) == from_msg(StatusCode_Display(status))

\* impl From<http::StatusCode> for StackError
From_StatusCode(status) ==
    LET code == from_http_value(as_u16(status))
        e == from_msg(StatusCode_Display(status))
    IN  IF code # None THEN with_err_code(e, code[1]) ELSE e

\* Variant: an adapter that ignores the status the client error carries.
From_reqwest_Error_ignores_status(error) == from_msg(error.text)

\* A reqwest::Error is its optional status and the text its Display writes.
\* impl From<reqwest::Error> for StackError
From_reqwest_Error(error) ==
    IF error.status # None
    THEN LET base == From_StatusCode(error.status[1])
         IN  stack_err_msg(base, error.text)
    ELSE from_msg(error.text)

\* --------------------------------------------------------------- macros
\* format!("{}:{} {}", file!(), line!(), format!(msg))
located(file, line, msg) == file \o <<":">> \o Decimal(line) \o <<" ">> \o msg

\* stack_map!(Type, msg) applied to e: <Type>::new(e).stack_err(located msg).
\* The new root's message is e itself, which renders as e's Display.
stack_map(e, file, line, msg) ==
    T_stack_err(T_new(Display_fmt(e)), located(file, line, msg))

\* ----------------------------------------------------- derive_stack_error
\* A declaration is its kind of item, whether its fields are named, and the
\* types of its fields in order.
Panic(msg) ==
    [panic |-> Some(msg), input |-> None, first_field_type |-> None,
     ctor_args |-> 0]

\* The quote! template: the declaration itself (#input), then impls that
\* build the value as Self(<first field type>::new(error)) and
\* Self(self.0. ...), a constructor call with one argument.
Expanded(input, ty) ==
    [panic |-> None, input |-> Some(input), first_field_type |-> Some(ty),
     ctor_args |-> 1]

\* Whether a field type has the methods the emitted impls call on it:
\* new(error), stack_err(error), err_code(), with_err_code(Option), err_uri(),
\* with_err_uri(Option), stack_err_code, stack_err_uri, stack_err_code_uri,
\* fmt and source. StackError is the type of error.rs, whose new() takes no
\* argument and which has none of the stack_err(error) family; String has
\* none of them; "T" stands for a type that has them all.
provides_inner_api(ty) == ty = "T"

\* The emitted items type-check only if the declaration is a tuple struct
\* (Self(..) and self.0 need unnamed fields), it takes as many fields as the
\* emitted constructor calls pass, and the first field's type has the methods
\* the impls call.
well_typed(tokens) ==
    /\ tokens.panic = None
    /\ ~tokens.input[1].named
    /\ Len(tokens.input[1].fields) = tokens.ctor_args
    /\ provides_inner_api(tokens.first_field_type[1])

derive_stack_error(input) ==
    IF input.data = "struct"
    THEN IF Len(input.fields) > 0
         THEN Expanded(input, input.fields[1])
         ELSE Panic("Expected at least one field")
    ELSE Panic("Expected a struct")

\* ---------------------------------------------------------------- state
\* ops logs the constructor and every operation applied since, in order.
Op(name, a) == [op |-> name, arg |-> a]

Log(name, a) == ops' = Append(ops, Op(name, a)) /\ UNCHANGED callVars

\* No free-function call is in progress.
NoCall == call = "none" /\ arg = None /\ ret = None

CanStep == Len(ops) < MaxOps + 1

\* The operations of StackError and of Result<V, StackError>; the generated
\* wrapper has its own operations and its own specification below.
Init ==
    \E m \in Msgs, empty \in BOOLEAN, ok \in BOOLEAN, v \in Vals :
        /\ err = IF empty THEN new ELSE from_msg(m)
        /\ res = IF ok THEN Ok(v) ELSE Err(err)
        /\ lib = LibError_new(m)
        /\ inner = T_new(m)
        /\ ops = <<IF empty THEN Op("new", None) ELSE Op("from_msg", Some(m))>>
        /\ NoCall

WithErrCode ==
    \E c \in Codes :
        /\ CanStep
        /\ err' = with_err_code(err, c)
        /\ res' = Result_with_err_code(res, c)
        /\ Log("with_err_code", Some(c))
        /\ UNCHANGED <<lib, inner>>

WithNoErrCode ==
    /\ CanStep
    /\ err' = with_no_err_code(err)
    /\ res' = Result_with_no_err_code(res)
    /\ Log("with_no_err_code", None)
    /\ UNCHANGED <<lib, inner>>

WithErrUri ==
    \E u \in Uris :
        /\ CanStep
        /\ err' = with_err_uri(err, u)
        /\ res' = Result_with_err_uri(res, u)
        /\ Log("with_err_uri", Some(u))
        /\ UNCHANGED <<lib, inner>>

WithNoErrUri ==
    /\ CanStep
    /\ err' = with_no_err_uri(err)
    /\ res' = Result_with_no_err_uri(res)
    /\ Log("with_no_err_uri", None)
    /\ UNCHANGED <<lib, inner>>

WithErrMsg ==
    \E m \in Msgs :
        /\ CanStep
        /\ err' = with_err_msg(err, m)
        /\ res' = Result_with_err_msg(res, m)
        /\ Log("with_err_msg", Some(m))
        /\ UNCHANGED <<lib, inner>>

WithNoErrMsg ==
    /\ CanStep
    /\ err' = with_no_err_msg(err)
    /\ res' = Result_with_no_err_msg(res)
    /\ Log("with_no_err_msg", None)
    /\ UNCHANGED <<lib, inner>>

StackErr ==
    /\ CanStep
    /\ err' = stack_err(err)
    /\ res' = Result_stack_err(res)
    /\ Log("stack_err", None)
    /\ UNCHANGED <<lib, inner>>

StackErrMsg ==
    \E m \in Msgs :
        /\ CanStep
        /\ err' = stack_err_msg(err, m)
        /\ res' = Result_stack_err_msg(res, m)
        /\ Log("stack_err_msg", Some(m))
        /\ UNCHANGED <<lib, inner>>

Next ==
    \/ WithErrCode
    \/ WithNoErrCode
    \/ WithErrUri
    \/ WithNoErrUri
    \/ WithErrMsg
    \/ WithNoErrMsg
    \/ StackErr
    \/ StackErrMsg

Spec == Init /\ [][Next]_vars

\* ------------------------------------------------ the generated wrapper
\* The wrapper and a value of its inner type, built from the same message and
\* taken through the same methods; ops logs the methods.
InitLib ==
    \E m \in Msgs :
        /\ err = new
        /\ res = Err(new)
        /\ lib = LibError_new(m)
        /\ inner = T_new(m)
        /\ ops = <<Op("new", Some(m))>>
        /\ NoCall

LibWithErrCode ==
    \E code \in {None} \cup {Some(c) : c \in Codes} :
        /\ CanStep
        /\ lib' = LibError_with_err_code(lib, code)
        /\ inner' = T_with_err_code(inner, code)
        /\ Log("with_err_code", code)
        /\ UNCHANGED <<err, res>>

LibWithErrUri ==
    \E uri \in {None} \cup {Some(u) : u \in Uris} :
        /\ CanStep
        /\ lib' = LibError_with_err_uri(lib, uri)
        /\ inner' = T_with_err_uri(inner, uri)
        /\ Log("with_err_uri", uri)
        /\ UNCHANGED <<err, res>>

LibStackErr ==
    \E m \in Msgs :
        /\ CanStep
        /\ lib' = LibError_stack_err(lib, m)
        /\ inner' = T_stack_err(inner, m)
        /\ Log("stack_err", Some(m))
        /\ UNCHANGED <<err, res>>

LibStackErrCode ==
    \E m \in Msgs :
        /\ CanStep
        /\ lib' = LibError_stack_err_code(lib, m)
        /\ inner' = T_stack_err_code(inner, m)
        /\ Log("stack_err_code", Some(m))
        /\ UNCHANGED <<err, res>>

LibStackErrUri ==
    \E m \in Msgs :
        /\ CanStep
        /\ lib' = LibError_stack_err_uri(lib, m)
        /\ inner' = T_stack_err_uri(inner, m)
        /\ Log("stack_err_uri", Some(m))
        /\ UNCHANGED <<err, res>>

LibStackErrCodeUri ==
    \E m \in Msgs :
        /\ CanStep
        /\ lib' = LibError_stack_err_code_uri(lib, m)
        /\ inner' = T_stack_err_code_uri(inner, m)
        /\ Log("stack_err_code_uri", Some(m))
        /\ UNCHANGED <<err, res>>

NextLib ==
    \/ LibWithErrCode
    \/ LibWithErrUri
    \/ LibStackErr
    \/ LibStackErrCode
    \/ LibStackErrUri
    \/ LibStackErrCodeUri

SpecLib == InitLib /\ [][NextLib]_vars

\* ------------------------------------------------- free-function calls
\* Inputs of the calls.
U16 == 0..U16_MAX

\* http::StatusCode holds 100..=999.
StatusCodes == 100..999

FieldTypes == {"StackError", "String", "T"}

RECURSIVE FieldLists(_)
FieldLists(n) ==
    IF n = 0 THEN {<<>>}
    ELSE FieldLists(n - 1)
         \cup {Append(fs, ty) : fs \in {f \in FieldLists(n - 1) : Len(f) = n - 1},
                                ty \in FieldTypes}

Decls ==
    [data : {"struct", "enum", "union"}, named : BOOLEAN,
     fields : FieldLists(MaxFields)]

IoErrors == [kind : {ErrorKind[i] : i \in 1..Len(ErrorKind)}, text : Msgs]

ReqwestErrors == [status : {None} \cup {Some(st) : st \in StatusCodes}, text : Msgs]

Files == {<<"f">>}

LineNos == {7, 12}

\* Errors handed to the closure stack_map! builds.
MappedErrors ==
    {from_msg(m) : m \in Msgs}
    \cup {stack_err_msg(with_err_code(from_msg(m1), c), m2) :
              m1 \in Msgs, m2 \in Msgs, c \in Codes}

StackMaps == [e : MappedErrors, file : Files, line : LineNos, msg : Msgs]

\* The chain variables are parked on an empty error while a call is checked.
InitFns ==
    /\ err = new
    /\ res = Err(new)
    /\ lib = LibError_new(<<>>)
    /\ inner = T_new(<<>>)
    /\ ops = <<Op("new", None)>>
    /\ call = "none"
    /\ ret = None
    /\ \/ \E x \in U16 : arg = [t |-> "u16", v |-> x]
       \/ \E i \in 1..Len(ErrorCode) : arg = [t |-> "code", v |-> ErrorCode[i]]
       \/ \E i \in 1..Len(ErrorKind) : arg = [t |-> "kind", v |-> ErrorKind[i]]
       \/ \E x \in Decls : arg = [t |-> "decl", v |-> x]
       \/ \E x \in IoErrors : arg = [t |-> "io_error", v |-> x]
       \/ \E x \in StatusCodes : arg = [t |-> "status", v |-> x]
       \/ \E x \in ReqwestErrors : arg = [t |-> "reqwest_error", v |-> x]
       \/ \E x \in StackMaps : arg = [t |-> "stack_map", v |-> x]

\* A call of the function named name, which takes an input of shape t.
Calls(t, name) ==
    /\ call = "none"
    /\ arg.t = t
    /\ call' = name
    /\ UNCHANGED <<arg, chainVars>>

FromHttpValue ==
    /\ Calls("u16", "from_http_value")
    /\ ret' = from_http_value(arg.v)

ToHttpValue ==
    /\ Calls("code", "to_http_value")
    /\ ret' = to_http_value(arg.v)

FromIoKind ==
    /\ Calls("kind", "from_io_kind")
    /\ ret' = from_io_kind(arg.v)

ToIoKind ==
    /\ Calls("code", "to_io_kind")
    /\ ret' = to_io_kind(arg.v)

AsU32 ==
    /\ Calls("code", "as_u32")
    /\ ret' = as_u32(arg.v)

DeriveStackError ==
    /\ Calls("decl", "derive_stack_error")
    /\ ret' = derive_stack_error(arg.v)

FromIoError ==
    /\ Calls("io_error", "From_io_Error")
    /\ ret' = From_io_Error(arg.v)

FromStatusCode ==
    /\ Calls("status", "From_StatusCode")
    /\ ret' = From_StatusCode(arg.v)

FromReqwestError ==
    /\ Calls("reqwest_error", "From_reqwest_Error")
    /\ ret' = From_reqwest_Error(arg.v)

StackMap ==
    /\ Calls("stack_map", "stack_map")
    /\ ret' = stack_map(arg.v.e, arg.v.file, arg.v.line, arg.v.msg)

NextFns ==
    \/ FromHttpValue
    \/ ToHttpValue
    \/ FromIoKind
    \/ ToIoKind
    \/ AsU32
    \/ DeriveStackError
    \/ FromIoError
    \/ FromStatusCode
    \/ FromReqwestError
    \/ StackMap

SpecFns == InitFns /\ [][NextFns]_vars

\* ------------------------------------------------------- history helpers
LastOp == ops[Len(ops)]

\* In a step, the operation that step applies.
NewOp == ops'[Len(ops')].op

StackOps == {"stack_err", "stack_err_msg"}

CodeOps == {"with_err_code", "with_no_err_code"}

UriOps == {"with_err_uri", "with_no_err_uri"}

MsgOps == {"with_err_msg", "with_no_err_msg"}

\* Number of stacking operations at the end of the log.
RECURSIVE TrailingStacks(_)
TrailingStacks(n) ==
    IF n > 1 /\ ops[n].op \in StackOps THEN 1 + TrailingStacks(n - 1) ELSE 0

\* The node n causes below self.
RECURSIVE Ancestor(_, _)
Ancestor(self, n) == IF n = 0 THEN self ELSE Ancestor(self.source[1], n - 1)

\* Text split at line breaks: k separators give k + 1 lines.
RECURSIVE Lines(_)
Lines(text) ==
    IF \A i \in 1..Len(text) : text[i] # NL THEN <<text>>
    ELSE LET k == CHOOSE i \in 1..Len(text) :
                      text[i] = NL /\ \A j \in 1..(i - 1) : text[j] # NL
         IN  <<SubSeq(text, 1, k - 1)>> \o Lines(SubSeq(text, k + 1, Len(text)))

NoLineBreak(text) == \A i \in 1..Len(text) : text[i] # NL

\* The log is a root built from a message followed only by stacked messages.
OnlyMessages ==
    /\ ops[1].op = "from_msg"
    /\ \A i \in 2..Len(ops) : ops[i].op = "stack_err_msg"
    /\ \A i \in 1..Len(ops) : NoLineBreak(ops[i].arg[1])

\* The messages of the chain, root first (None where a node has none).
chain_msgs(self) ==
    LET nodes == rev(successors(self))
    IN  [i \in 1..Len(nodes) |-> nodes[i].message]

\* The messages of the cause nodes only (everything below the top).
cause_msgs(self) ==
    IF self.source = None THEN <<>> ELSE chain_msgs(self.source[1])

IsPrefix(s, t) == Len(s) <= Len(t) /\ \A i \in 1..Len(s) : s[i] = t[i]

\* ---------------------------------------------------------------- claims

\* C1: Metadata propagation. After any number of stacking operations
\* (stack_err or stack_err_msg) with no other operation in between, the top
\* node reports the code and the URI of the error the stacking started from.
C1_MetadataPropagation ==
    LET n == TrailingStacks(Len(ops))
        base == Ancestor(err, n)
    IN  /\ err_code(err) = err_code(base)
        /\ err_uri(err) = err_uri(base)

C1_Witness ==
    /\ TrailingStacks(Len(ops)) >= 2
    /\ err_code(err) # None
    /\ err_uri(err) # None

\* C2: Rendering order and count. A root built from a message followed by n
\* stacked messages renders (Debug) as exactly n+1 lines, which are the
\* messages in the order they were given, root first, nothing before the
\* first line.
C2_RenderOrderAndCount ==
    OnlyMessages =>
        /\ Len(Lines(Debug_fmt(err))) = Len(ops)
        /\ Lines(Debug_fmt(err)) = [i \in 1..Len(ops) |-> ops[i].arg[1]]

C2_Witness ==
    /\ OnlyMessages
    /\ Len(ops) >= 3
    /\ ops[1].arg # ops[Len(ops)].arg
    /\ Len(Debug_fmt(err)) > 0

\* C3: Display of a stacked error. For an error built from m1 and stacked
\* with m2, to_string() is m1, a line break, then m2.
C3_DisplayShowsChain ==
    (Len(ops) = 2 /\ ops[1].op = "from_msg" /\ ops[2].op = "stack_err_msg") =>
        to_string(err) = ops[1].arg[1] \o <<NL>> \o ops[2].arg[1]

\* C4: Metadata override. Once with_no_err_code was applied, err_code() is
\* None after every later operation until with_err_code is applied; from
\* then on the code it set is the one reported, until the next code
\* operation.
C4_MetadataOverride ==
    \A i \in 2..Len(ops) :
        /\ (/\ ops[i].op = "with_no_err_code"
            /\ \A j \in (i + 1)..Len(ops) : ops[j].op # "with_err_code")
           => err_code(err) = None
        /\ (/\ ops[i].op = "with_err_code"
            /\ \A j \in (i + 1)..Len(ops) : ops[j].op \notin CodeOps)
           => err_code(err) = ops[i].arg

C4_Witness ==
    /\ Len(ops) >= 4
    /\ TrailingStacks(Len(ops)) >= 1
    /\ \E i \in 3..Len(ops) :
           /\ ops[i].op = "with_no_err_code"
           /\ \E j \in 2..(i - 2) : ops[j].op = "with_err_code"
           /\ \A j \in (i + 1)..Len(ops) : ops[j].op \in StackOps
    /\ err.source[1].source # None

\* C5: Wrapper equivalence. The generated wrapper and its inner error type,
\* taken through the same operations, render the same text (Display and
\* Debug) and report the same code, URI and cause.
C5_WrapperEquivalence ==
    /\ LibError_Display_fmt(lib) = Display_fmt(inner)
    /\ LibError_Debug_fmt(lib) = Debug_fmt(inner)
    /\ LibError_err_code(lib) = err_code(inner)
    /\ LibError_err_uri(lib) = err_uri(inner)
    /\ LibError_source(lib) = source(inner)

C5_Witness ==
    /\ source(inner) # None
    /\ source(inner)[1].source # None
    /\ err_code(inner) # None
    /\ err_uri(inner) # None
    /\ LastOp.op \in {"stack_err", "stack_err_code_uri"}
    /\ \E i \in 2..Len(ops) : ops[i].op \in {"stack_err_code", "stack_err_uri"}

\* C6: Result lifting is a no-op on success. Every lifted operation leaves
\* Ok(v) exactly as it was, and never turns an Err into an Ok.
C6_LiftNoOpOnOk ==
    [][/\ is_ok(res) => res' = res
       /\ is_err(res) => is_err(res')]_vars

C6_Witness == is_ok(res) /\ Len(ops) >= 3 /\ res[2] = 1

\* C7: Result lifting delegates on failure. Err(e) taken through the lifted
\* operations is Err of e taken through the same operations; the lifted
\* accessors give e's code and URI on Err(e) and None on Ok.
C7_LiftDelegatesOnErr ==
    /\ is_err(res) =>
          /\ res = Err(err)
          /\ Result_err_code(res) = err_code(err)
          /\ Result_err_uri(res) = err_uri(err)
    /\ is_ok(res) =>
          /\ Result_err_code(res) = None
          /\ Result_err_uri(res) = None

C7_Witness ==
    /\ is_err(res)
    /\ Len(ops) >= 4
    /\ Result_err_code(res) # None
    /\ Result_err_uri(res) # None
    /\ res[2].source # None

\* C8: Builder operations change only their own field. A code builder
\* changes the top node's code and nothing else; a URI builder changes the
\* top node's URI and nothing else: message, the other field and the whole
\* cause chain are as before.
C8_BuildersChangeOwnField ==
    [][/\ NewOp \in CodeOps =>
            /\ err'.message = err.message
            /\ err'.uri = err.uri
            /\ err'.source = err.source
            /\ err'.code = ops'[Len(ops')].arg
       /\ NewOp \in UriOps =>
            /\ err'.message = err.message
            /\ err'.code = err.code
            /\ err'.source = err.source
            /\ err'.uri = ops'[Len(ops')].arg]_vars

C8_Witness ==
    /\ LastOp.op \in CodeOps \cup UriOps
    /\ err.source # None
    /\ err.message # None
    /\ err.source[1].code # err.code
    /\ err.uri # None

\* C9: Accessors read only the topmost node. err_code() and err_uri() are
\* the top node's own code and URI and never fall back to a cause: right
\* after with_no_err_code (with_no_err_uri) the accessor gives None even
\* when the cause still carries a code (URI).
C9_AccessorsReadTop ==
    /\ err_code(err) = err.code
    /\ err_uri(err) = err.uri
    /\ LastOp.op = "with_no_err_code" => err_code(err) = None
    /\ LastOp.op = "with_no_err_uri" => err_uri(err) = None

C9_Witness ==
    /\ LastOp.op = "with_no_err_code"
    /\ err.source # None
    /\ err.source[1].code # None
    /\ err_code(err) = None

\* C10 (as stated): every message ever stored in the chain is still there, in
\* its position, after every operation.
C10_AppendOnlyAllMessages ==
    [][IsPrefix(chain_msgs(err), chain_msgs(err'))]_vars

\* C10 (amended): no operation removes or replaces the message of a cause
\* node, and only with_err_msg / with_no_err_msg replace or remove the
\* message of the topmost node.
C10_AppendOnlyCauses ==
    [][/\ IsPrefix(cause_msgs(err), chain_msgs(err'))
       /\ NewOp \notin MsgOps => IsPrefix(chain_msgs(err), chain_msgs(err'))]_vars

C10_Witness ==
    /\ LastOp.op \in MsgOps
    /\ err.source # None
    /\ err.source[1].message # None
    /\ err.source[1].message # err.message

\* ------------------------------------------------ more history helpers
\* Number of stacking operations in the first n entries of the log.
RECURSIVE NumStacks(_)
NumStacks(n) ==
    IF n <= 1 THEN 0
    ELSE NumStacks(n - 1) + (IF ops[n].op \in StackOps THEN 1 ELSE 0)

\* Position in the log of the k-th stacking operation.
KthStackPos(k) ==
    CHOOSE p \in 2..Len(ops) : ops[p].op \in StackOps /\ NumStacks(p) = k

\* The code / URI the log says the top carries after its first n entries.
RECURSIVE CodeAfter(_)
CodeAfter(n) ==
    IF n <= 1 THEN None
    ELSE IF ops[n].op = "with_err_code" THEN ops[n].arg
    ELSE IF ops[n].op = "with_no_err_code" THEN None
    ELSE CodeAfter(n - 1)

RECURSIVE UriAfter(_)
UriAfter(n) ==
    IF n <= 1 THEN None
    ELSE IF ops[n].op = "with_err_uri" THEN ops[n].arg
    ELSE IF ops[n].op = "with_no_err_uri" THEN None
    ELSE UriAfter(n - 1)

\* C11: Cause introspection. source() of an error never stacked upon is None;
\* source() of the result of stacking on e is e itself; following source()
\* from the top of an error built with n stacking operations visits exactly
\* n+1 nodes and then ends.
C11_CauseIntrospection ==
    [][/\ NewOp \in StackOps => source(err') = Some(err)
       /\ LET n == NumStacks(Len(ops))
          IN  /\ n = 0 => source(err) = None
              /\ Len(successors(err)) = n + 1
              /\ source(Ancestor(err, n)) = None
       /\ Len(successors(err')) =
              Len(successors(err)) + (IF NewOp \in StackOps THEN 1 ELSE 0)]_vars

C11_Witness ==
    /\ NumStacks(Len(ops)) >= 3
    /\ Len(successors(err)) = 4
    /\ source(err) # None
    /\ LastOp.op \in StackOps

\* C20: Snapshot independence. Every cause node keeps the code and URI it had
\* at the moment it was stacked upon, whatever builder is applied to the top
\* afterwards.
C20_SnapshotIndependence ==
    LET nodes == rev(successors(err))
    IN  \A k \in 1..(Len(nodes) - 1) :
            /\ nodes[k].code = CodeAfter(KthStackPos(k) - 1)
            /\ nodes[k].uri = UriAfter(KthStackPos(k) - 1)

C20_Witness ==
    /\ Len(successors(err)) >= 2
    /\ LastOp.op \in {"with_no_err_code", "with_no_err_uri"}
    /\ \/ err.source[1].code # None /\ err.code = None /\ LastOp.op = "with_no_err_code"
       \/ err.source[1].uri # None /\ err.uri = None /\ LastOp.op = "with_no_err_uri"

\* ------------------------------------------------- helpers for the calls
\* The sections of enum ErrorCode: Runtime*, then Http*, then Io*.
RuntimeCodes == {ErrorCode[i] : i \in 1..4}

HttpCodes == {ErrorCode[i] : i \in 5..44}

IoCodes == {ErrorCode[i] : i \in 45..Len(ErrorCode)}

AllCodes == {ErrorCode[i] : i \in 1..Len(ErrorCode)}

AllKinds == {ErrorKind[i] : i \in 1..Len(ErrorKind)}

Contains(text, sub) ==
    \E i \in 0..(Len(text) - Len(sub)) : SubSeq(text, i + 1, i + Len(sub)) = sub

EndsWith(text, sub) ==
    /\ Len(sub) <= Len(text)
    /\ SubSeq(text, Len(text) - Len(sub) + 1, Len(text)) = sub

\* C12: The HTTP mapping round-trips and is partial. A status that
\* from_http_value maps to a code is the status to_http_value gives for that
\* code, and the other way round; a status no code maps to (299 for one)
\* gives None, and every Runtime* and Io* code gives None from to_http_value.
C12_HttpRoundTrip ==
    /\ call = "from_http_value" =>
          /\ ret # None => to_http_value(ret[1]) = Some(arg.v)
          /\ arg.v = 299 => ret = None
          /\ (\A c \in AllCodes : to_http_value(c) # Some(arg.v)) => ret = None
    /\ call = "to_http_value" =>
          /\ ret # None => from_http_value(ret[1]) = Some(arg.v)
          /\ arg.v \in RuntimeCodes \cup IoCodes => ret = None

C12_Witness ==
    /\ call = "to_http_value"
    /\ arg.v = "HttpGone"
    /\ ret = Some(410)
    /\ from_http_value(410) = Some("HttpGone")

\* C13: The I/O-kind mapping is one-to-one in each direction. A kind that
\* from_io_kind maps to a code is the kind to_io_kind gives for that code, and
\* the other way round; a kind no code maps to gives None, and every Runtime*
\* and Http* code gives None from to_io_kind.
C13_IoRoundTrip ==
    /\ call = "from_io_kind" =>
          /\ ret # None => to_io_kind(ret[1]) = Some(arg.v)
          /\ (\A c \in AllCodes : to_io_kind(c) # Some(arg.v)) => ret = None
    /\ call = "to_io_kind" =>
          /\ ret # None => from_io_kind(ret[1]) = Some(arg.v)
          /\ arg.v \in RuntimeCodes \cup HttpCodes => ret = None

C13_Witness ==
    /\ call = "to_io_kind"
    /\ arg.v = "IoTimedOut"
    /\ ret = Some("TimedOut")
    /\ from_io_kind("TimedOut") = Some("IoTimedOut")

\* C14: Generator contract check. derive_stack_error applied to a declaration
\* that is not a struct with exactly one field fails with an error; it
\* succeeds only for a struct with exactly one field.
C14_ExactlyOneField ==
    call = "derive_stack_error" =>
        (ret.panic = None <=> (arg.v.data = "struct" /\ Len(arg.v.fields) = 1))

\* C15: The I/O adapter. Converting an I/O failure of kind k gives a chain of
\* one node, with the failure's text as message, no URI, and the code
\* from_io_kind(k): IoNotFound for NotFound, none for a kind outside the
\* table.
C15_IoAdapter ==
    call = "From_io_Error" =>
        /\ source(ret) = None
        /\ ret.message = Some(arg.v.text)
        /\ err_uri(ret) = None
        /\ err_code(ret) = from_io_kind(arg.v.kind)
        /\ arg.v.kind = "NotFound" => err_code(ret) = Some("IoNotFound")
        /\ (\A c \in AllCodes : to_io_kind(c) # Some(arg.v.kind)) => err_code(ret) = None

C15_Witness ==
    /\ call = "From_io_Error"
    /\ arg.v.kind = "HostUnreachable"
    /\ err_code(ret) = None
    /\ ret.message # None

\* C16: The HTTP-status adapter. Converting a status s gives a chain of one
\* node, with the status's text as message and the code from_http_value(s):
\* none for every 1xx/2xx/3xx status and every status outside the table.
C16_HttpStatusAdapter ==
    call = "From_StatusCode" =>
        /\ source(ret) = None
        /\ ret.message = Some(StatusCode_Display(arg.v))
        /\ err_code(ret) = from_http_value(arg.v)
        /\ arg.v < 400 => err_code(ret) = None
        /\ (\A c \in AllCodes : to_http_value(c) # Some(arg.v)) => err_code(ret) = None

C16_Witness ==
    /\ call = "From_StatusCode"
    /\ arg.v = 404
    /\ err_code(ret) = Some("HttpNotFound")
    /\ ret.message = Some(<<"4", "0", "4", " ", "N", "o", "t", " ", "F", "o", "u", "n", "d">>)

\* C17: The HTTP-client adapter. A client error that carries a status gives
\* two nodes: the root is the status adapter's result, the top has the client
\* error's message and the code the status mapping gave. A client error
\* without a status gives one node with its message and no code.
C17_HttpClientAdapter ==
    call = "From_reqwest_Error" =>
        /\ ret.message = Some(arg.v.text)
        /\ arg.v.status # None =>
              /\ Len(successors(ret)) = 2
              /\ source(ret) = Some(From_StatusCode(arg.v.status[1]))
              /\ err_code(ret) = from_http_value(arg.v.status[1])
        /\ arg.v.status = None =>
              /\ source(ret) = None
              /\ err_code(ret) = None

C17_Witness ==
    /\ call = "From_reqwest_Error"
    /\ arg.v.status = Some(503)
    /\ err_code(ret) = Some("HttpServiceUnavailable")
    /\ Len(successors(ret)) = 2

\* C18: stack_map. The closure built by stack_map!(Type, msg), applied to an
\* error e, gives an error whose to_string() contains e's message and msg,
\* and ends with msg.
C18_StackMapText ==
    call = "stack_map" =>
        /\ Contains(to_string(ret), to_string(arg.v.e))
        /\ Contains(to_string(ret), arg.v.msg)
        /\ EndsWith(to_string(ret), arg.v.msg)

\* C19: ErrorCode::RuntimeInvalidValue cast to u32 is 1001.
C19_RuntimeInvalidValueIs1001 ==
    (call = "as_u32" /\ arg.v = "RuntimeInvalidValue") => ret = 1001

====
